---------------------------- MODULE Spec2Model ----------------------------
(***************************************************************************)
(* Model of the scene-graph path manager of the Thelios tools extension:   *)
(* USDTools.create_hierarchy_structure, _get_or_create_prim,               *)
(* assign_payload, import_payload and hide_all_scopes_except               *)
(* (tools/utils/usd_tools.py), with the path construction of               *)
(* TheliosLogic._create_hierarchy_and_import_payload (logic.py), its       *)
(* batch loop, the template imports of tools/templates/                    *)
(* template_tools.py, and the render panel: TheliosLogic._render_queue     *)
(* and _render_selected_skus_async, the view slider, and                   *)
(* wait_for_render_completion of tools/render/custom_render_sequence.py.   *)
(*                                                                         *)
(* Spec is the hierarchy, import and isolation operations on an open       *)
(* stage; SpecAttach is import_payload with a missing stage and a raising  *)
(* AddPayload command; SpecBatch is the batch import; SpecScene adds the   *)
(* template imports; SpecRender is the render panel on a stage of two      *)
(* SKUs, and SpecRenderFair adds the fairness of the event loop.           *)
(*                                                                         *)
(* The event loop runs one callback or one coroutine at a time: running is *)
(* the render queue that holds the loop (0 when the loop is idle), and a   *)
(* queue gives the loop back only in the asyncio.sleep of its wait.        *)
(*                                                                         *)
(* Strings are TLA+ strings; the Python string operations the code uses    *)
(* (split, strip, rstrip, startswith, "in") are computed on them.          *)
(* The USD stage is a record: prims (paths in authoring order, which is    *)
(* the order Traverse visits siblings in), typeName, visibility, payloads, *)
(* rotateY (time samples of the rotateY op), defaultPrim and loadRules.    *)
(***************************************************************************)
EXTENDS Integers, Sequences, FiniteSets, TLC

VARIABLES stage, last, modal, queues, running, capture, dirs, files

\* the state of the render panel, the render queues and the output folder
rvars == <<modal, queues, running, capture, dirs, files>>

vars == <<stage, last, modal, queues, running, capture, dirs, files>>

-----------------------------------------------------------------------------
(* Bounds *)

MaxPrims == 7
MaxPayloads == 1
MaxScenePrims == 9
MaxAttachPayloads == 2
MaxBatchPrims == 9
MaxQueues == 1
MaxRenders == 2
WaitTimeout == 2

-----------------------------------------------------------------------------
(* Python string operations *)

StartsWith(s, p) == Len(s) >= Len(p) /\ SubSeq(s, 1, Len(p)) = p

Contains(s, sub) ==
    \E i \in 1..(Len(s) - Len(sub) + 1) : SubSeq(s, i, i + Len(sub) - 1) = sub

RECURSIVE LStrip(_, _)
LStrip(s, c) ==
    IF Len(s) > 0 /\ SubSeq(s, 1, 1) = c THEN LStrip(SubSeq(s, 2, Len(s)), c) ELSE s

RECURSIVE RStrip(_, _)
RStrip(s, c) ==
    IF Len(s) > 0 /\ SubSeq(s, Len(s), Len(s)) = c
    THEN RStrip(SubSeq(s, 1, Len(s) - 1), c)
    ELSE s

Strip(s, c) == RStrip(LStrip(s, c), c)

\* s.split(c): the pieces of s between the occurrences of c, empty ones included
RECURSIVE SplitFrom(_, _, _, _)
SplitFrom(s, c, start, i) ==
    IF i > Len(s) THEN <<SubSeq(s, start, Len(s))>>
    ELSE IF SubSeq(s, i, i) = c
         THEN <<SubSeq(s, start, i - 1)>> \o SplitFrom(s, c, i + 1, i + 1)
         ELSE SplitFrom(s, c, start, i + 1)

Split(s, c) == SplitFrom(s, c, 1, 1)

-----------------------------------------------------------------------------
(* Sdf.Path and Usd.Stage *)

\* Sdf.Path(path).name: the last element of the path
PathName(path) == LET parts == Split(path, "/") IN parts[Len(parts)]

\* Sdf.Path(path).GetParentPath(); the parent of a root prim is the
\* pseudo-root "/"
PathParent(path) ==
    LET n == Len(path) - Len(PathName(path)) - 1
    IN IF n <= 0 THEN "/" ELSE SubSeq(path, 1, n)

\* stage.GetPrimAtPath(path).IsValid()
IsValid(st, path) == path \in DOMAIN st.typeName

\* prim.GetName(), prim.GetParent()
GetName(st, prim) == st.name[prim]
GetParent(st, prim) == st.parent[prim]

\* the loop of is_descendant_of: walk up from current to the pseudo-root
RECURSIVE AncestorWalk(_, _, _)
AncestorWalk(st, current, ancestor) ==
    IF current = "/" THEN FALSE
    ELSE IF current = ancestor THEN TRUE
    ELSE AncestorWalk(st, GetParent(st, current), ancestor)

\* the position after the subtree of par in the namespace order
RECURSIVE LastInside(_, _, _)
LastInside(st, par, i) ==
    IF i = 0 THEN 0
    ELSE IF AncestorWalk(st, st.prims[i], par) THEN i
    ELSE LastInside(st, par, i - 1)

InsertAt(st, par) ==
    IF par = "/" THEN Len(st.prims) + 1
    ELSE LastInside(st, par, Len(st.prims)) + 1

\* <Schema>.Define(stage, path): authors the prim (and, as typeless prims,
\* any ancestor that is missing) as the last child of its parent.  The stage
\* keeps its prims in namespace order (depth-first, siblings in authoring
\* order) and each prim's name and parent as parsed from its path.
RECURSIVE Define(_, _, _)
Define(st, path, type) ==
    LET Author(st1, par, at) ==
            [st1 EXCEPT !.prims = SubSeq(@, 1, at - 1) \o <<path>>
                                      \o SubSeq(@, at, Len(@)),
                        !.name = @ @@ (path :> PathName(path)),
                        !.parent = @ @@ (path :> par),
                        !.typeName = @ @@ (path :> type),
                        !.visibility = @ @@ (path :> "inherited"),
                        !.payloads = @ @@ (path :> <<>>)]
        Under(st1, par) == Author(st1, par, InsertAt(st1, par))
        WithParent(par) ==
            Under(IF par # "/" /\ ~IsValid(st, par) THEN Define(st, par, "") ELSE st,
                  par)
    IN WithParent(PathParent(path))

\* prim.GetAllChildren(), in authoring order
GetAllChildren(st, path) ==
    SelectSeq(st.prims, LAMBDA p : GetParent(st, p) = path)

\* stage.Traverse(): depth-first pre-order over the prims
Traverse(st) == st.prims

\* prim.IsA(UsdGeom.Scope)
IsScope(st, path) == st.typeName[path] = "Scope"

\* UsdGeom.Imageable(prim) is valid for Xform and Scope prims
IsImageable(st, path) == st.typeName[path] \in {"Xform", "Scope"}

\* open is FALSE when omni.usd.get_context().get_stage() returns None
EmptyStage ==
    [open |-> TRUE,
     prims |-> <<>>, name |-> <<>>, parent |-> <<>>, typeName |-> <<>>,
     visibility |-> <<>>, payloads |-> <<>>,
     rotateY |-> <<>>, defaultPrim |-> "", loadRules |-> "LoadAll"]

NoStage == [EmptyStage EXCEPT !.open = FALSE]

-----------------------------------------------------------------------------
(* USDTools.create_hierarchy_structure *)

\* get_or_create_scope that defines the Scope over a prim that exists
get_or_create_scope_redefine(st, path) ==
    IF IsValid(st, path) THEN [st EXCEPT !.typeName[path] = "Scope"]
    ELSE Define(st, path, "Scope")

get_or_create_scope(st, path) ==
    IF IsValid(st, path) THEN st ELSE Define(st, path, "Scope")

get_or_create_xform(st, path) ==
    IF IsValid(st, path) THEN st ELSE Define(st, path, "Xform")

world_path == "/World"
models_path == world_path \o "/Models"
glass_xform_path == models_path \o "/glass_Xform"
model_xform_path(model_name) == glass_xform_path \o "/" \o model_name \o "_Xform"
release_scope_path(model_name, release) ==
    model_xform_path(model_name) \o "/Release_" \o release
sku_scope_path(model_name, sku_name, release) ==
    release_scope_path(model_name, release) \o "/" \o model_name \o "_" \o sku_name

\* rotY.Set(-45.0 * i, Usd.TimeCode(i)) for i in range(1, 9)
RotateYSamples == [i \in 1..8 |-> (0 - 45) * i]

\* create_hierarchy_structure that also makes the Setup scope under World
create_hierarchy_structure_with_setup(st, model_name, sku_name, release) ==
    LET s0 == get_or_create_xform(st, world_path)
        s1 == [s0 EXCEPT !.defaultPrim = world_path]
        sa == get_or_create_scope(s1, world_path \o "/Setup")
        s2 == get_or_create_scope(sa, models_path)
        s3 == get_or_create_xform(s2, glass_xform_path)
        s4 == [s3 EXCEPT !.rotateY = (glass_xform_path :> RotateYSamples)]
        s5 == get_or_create_xform(s4, model_xform_path(model_name))
        s6 == get_or_create_scope(s5, release_scope_path(model_name, release))
    IN get_or_create_scope(s6, sku_scope_path(model_name, sku_name, release))

create_hierarchy_structure(st, model_name, sku_name, release) ==
    LET s0 == get_or_create_xform(st, world_path)
        s1 == [s0 EXCEPT !.defaultPrim = world_path]
        s2 == get_or_create_scope(s1, models_path)
        s3 == get_or_create_xform(s2, glass_xform_path)
        s4 == [s3 EXCEPT !.rotateY = (glass_xform_path :> RotateYSamples)]
        s5 == get_or_create_xform(s4, model_xform_path(model_name))
        s6 == get_or_create_scope(s5, release_scope_path(model_name, release))
    IN get_or_create_scope(s6, sku_scope_path(model_name, sku_name, release))

-----------------------------------------------------------------------------
(* USDTools.check_usd_file_exists *)

\* The file system and the Omniverse server the extension runs against:
\* the local paths that are regular files, the local paths that are
\* directories, and the URLs Usd.Stage.Open can open.
LocalFiles ==
    {"U:\\01_USD\\a.usd", "U:\\02_TOOLS\\01_Template/ABC/lights.usd",
     "U:\\01_USD\\None\\01_Models\\M\\sku\\M_A.usd"}
LocalDirs == {"U:\\01_USD"}
OpenableUrls == {"omniverse://srv/a.usd"}

check_usd_file_exists(file_path) ==
    IF StartsWith(file_path, "omniverse://")
    THEN file_path \in OpenableUrls
    ELSE file_path \in (LocalFiles \cup LocalDirs) /\ file_path \in LocalFiles

-----------------------------------------------------------------------------
(* USDTools._get_or_create_prim, assign_payload, import_payload *)

\* the first prim of the traversal whose name is prim_name, "" if there is none
FirstNamed(st, trav, prim_name) ==
    LET hits == SelectSeq(trav, LAMBDA p : GetName(st, p) = prim_name)
    IN IF hits = <<>> THEN "" ELSE Head(hits)

\* "_Xform" in part or part == "World"
IsXformName(part) == Contains(part, "_Xform") \/ part = "World"

RECURSIVE CreateParts(_, _, _)
CreateParts(st, current_path, path_parts) ==
    IF path_parts = <<>> THEN st
    ELSE LET Step(part, next_path) ==
                IF part = "" THEN CreateParts(st, current_path, Tail(path_parts))
                ELSE IF IsValid(st, next_path)
                     THEN CreateParts(st, next_path, Tail(path_parts))
                     ELSE CreateParts(
                            Define(st, next_path,
                                   IF IsXformName(part) THEN "Xform" ELSE "Scope"),
                            next_path, Tail(path_parts))
         IN Step(Head(path_parts),
                 RStrip(current_path, "/") \o "/" \o Head(path_parts))

\* returns the stage and the prim found or created ("" for an invalid prim)
get_or_create_prim(st, path) ==
    LET prim_name(parts) == parts[Len(parts)]
        Created(st1) == [stage |-> st1, prim |-> IF IsValid(st1, path) THEN path ELSE ""]
        Result(found) ==
            IF found # "" THEN [stage |-> st, prim |-> found]
            ELSE Created(CreateParts(st, "/", Split(Strip(path, "/"), "/")))
    IN Result(FirstNamed(st, Traverse(st), prim_name(Split(path, "/"))))

\* AddPayload that replaces the payloads the prim carries
AddPayload_replace(st, prim_path, payload) ==
    [st EXCEPT !.payloads[prim_path] = <<payload>>]

\* The AddPayload command: UsdPayloads.AddPayload at the back of the prim's
\* payload list.  A payload list holds no item twice: a payload the prim
\* already carries is moved to the back, a new one is added at the back.
AddPayload(st, prim_path, payload) ==
    [st EXCEPT !.payloads[prim_path] =
                   Append(SelectSeq(@, LAMBDA x : x # payload), payload)]

\* str(e) of the two exceptions assign_payload can end with
NoStageError == "No active stage found"
AddPayloadError == "AddPayload failed"

\* assign_payload with stage.SetLoadRules ahead of the AddPayload command
assign_payload_load_first(st, target_path, payload_asset_path, raises) ==
    IF ~st.open THEN [stage |-> st, prim |-> "", raised |-> NoStageError]
    ELSE LET Loaded(s) == [s EXCEPT !.loadRules = "LoadAll"]
             Assign(r) ==
                IF raises
                THEN [stage |-> Loaded(r.stage), prim |-> "",
                      raised |-> AddPayloadError]
                ELSE [stage |-> AddPayload(Loaded(r.stage), r.prim,
                                           payload_asset_path),
                      prim |-> r.prim, raised |-> ""]
         IN Assign(get_or_create_prim(st, target_path))

\* assign_payload that undoes _get_or_create_prim when the command raises
assign_payload_rollback(st, target_path, payload_asset_path, raises) ==
    IF ~st.open THEN [stage |-> st, prim |-> "", raised |-> NoStageError]
    ELSE LET Loaded(s1) == [s1 EXCEPT !.loadRules = "LoadAll"]
             Assign(r) ==
                IF raises
                THEN [stage |-> st, prim |-> "", raised |-> AddPayloadError]
                ELSE [stage |-> Loaded(AddPayload(r.stage, r.prim,
                                                  payload_asset_path)),
                      prim |-> r.prim, raised |-> ""]
         IN Assign(get_or_create_prim(st, target_path))

\* raises: the AddPayload command raises; raised is str(e) of the exception
\* assign_payload ends with, "" when it returns the prim
assign_payload(st, target_path, payload_asset_path, raises) ==
    IF ~st.open THEN [stage |-> st, prim |-> "", raised |-> NoStageError]
    ELSE LET Loaded(s1) == [s1 EXCEPT !.loadRules = "LoadAll"]
             Assign(r) ==
                IF raises
                THEN [stage |-> r.stage, prim |-> "", raised |-> AddPayloadError]
                ELSE [stage |-> Loaded(AddPayload(r.stage, r.prim,
                                                  payload_asset_path)),
                      prim |-> r.prim, raised |-> ""]
         IN Assign(get_or_create_prim(st, target_path))

\* the outcome of an import_payload whose assign_payload raised
RaisedOutcome(raised) ==
    IF raised = NoStageError THEN "NoActiveDocument" ELSE "AttachError"

\* import_payload that resolves the target prim before it checks the file
import_payload_check_late(st, payload_usd_path, target_path, raises) ==
    LET Result(r) ==
            IF r.raised # ""
            THEN [stage |-> r.stage, outcome |-> RaisedOutcome(r.raised),
                  prim |-> "", warnings |-> 1, escaped |-> "",
                  notification |-> "ERROR during import: " \o r.raised]
            ELSE [stage |-> r.stage, outcome |-> "Success", prim |-> r.prim,
                  warnings |-> 0, escaped |-> "", notification |-> ""]
    IN IF ~check_usd_file_exists(payload_usd_path)
       THEN [stage |-> get_or_create_prim(st, target_path).stage,
             outcome |-> "NotFound", prim |-> "",
             warnings |-> 1, escaped |-> "",
             notification |-> "ERROR: USD file not found: " \o payload_usd_path]
       ELSE Result(assign_payload(st, target_path, payload_usd_path, raises))

\* import_payload without the try/except around assign_payload
import_payload_no_except(st, payload_usd_path, target_path, raises) ==
    IF ~check_usd_file_exists(payload_usd_path)
    THEN [stage |-> st, outcome |-> "NotFound", prim |-> "", warnings |-> 1,
          escaped |-> "",
          notification |-> "ERROR: USD file not found: " \o payload_usd_path]
    ELSE LET Result(r) ==
                IF r.raised # ""
                THEN [stage |-> r.stage, outcome |-> RaisedOutcome(r.raised),
                      prim |-> "", warnings |-> 0, escaped |-> r.raised,
                      notification |-> ""]
                ELSE [stage |-> r.stage, outcome |-> "Success", prim |-> r.prim,
                      warnings |-> 0, escaped |-> "", notification |-> ""]
         IN Result(assign_payload(st, target_path, payload_usd_path, raises))

\* returns the stage, the outcome, the prim that received the payload, the
\* number of warnings posted with the text of the last one, and str(e) of an
\* exception that leaves import_payload ("" when it returns normally)
import_payload(st, payload_usd_path, target_path, raises) ==
    IF ~check_usd_file_exists(payload_usd_path)
    THEN [stage |-> st, outcome |-> "NotFound", prim |-> "", warnings |-> 1,
          escaped |-> "",
          notification |-> "ERROR: USD file not found: " \o payload_usd_path]
    ELSE LET Result(r) ==
                IF r.raised # ""
                THEN [stage |-> r.stage, outcome |-> RaisedOutcome(r.raised),
                      prim |-> "", warnings |-> 1, escaped |-> "",
                      notification |-> "ERROR during import: " \o r.raised]
                ELSE [stage |-> r.stage, outcome |-> "Success", prim |-> r.prim,
                      warnings |-> 0, escaped |-> "", notification |-> ""]
         IN Result(assign_payload(st, target_path, payload_usd_path, raises))

-----------------------------------------------------------------------------
(* tools/templates/template_tools.py: _default_prim_set, _import_camera,   *)
(* _import_lights.  Their import_payload is the one of tools/usd/          *)
(* usd_tools.py, which differs from USDTools.import_payload only in an     *)
(* INFO notification on success.                                           *)

camera_target == "/World/Setup/Cameras"
light_target == "/World/Setup/Lights"

tt_get_or_create_scope(st, path) ==
    IF IsValid(st, path) THEN st ELSE Define(st, path, "Scope")

tt_get_or_create_xform(st, path) ==
    IF IsValid(st, path) THEN st ELSE Define(st, path, "Xform")

\* _default_prim_set without the Setup scope
default_prim_set_world_only(st) ==
    LET s0 == tt_get_or_create_xform(st, world_path)
    IN [s0 EXCEPT !.defaultPrim = world_path]

default_prim_set(st) ==
    LET s0 == tt_get_or_create_xform(st, world_path)
        s1 == [s0 EXCEPT !.defaultPrim = world_path]
    IN tt_get_or_create_scope(s1, world_path \o "/Setup")

\* s.replace(" ", "_")
RECURSIVE ReplaceSpaces(_)
ReplaceSpaces(s) ==
    IF s = "" THEN ""
    ELSE (IF SubSeq(s, 1, 1) = " " THEN "_" ELSE SubSeq(s, 1, 1))
            \o ReplaceSpaces(SubSeq(s, 2, Len(s)))

import_camera(st, brand_camera_value, templates_dir, raises) ==
    LET s0 == default_prim_set(st)
        brand_camera == ReplaceSpaces(brand_camera_value)
        camera_payload ==
            templates_dir \o "\\ABC\\camera\\" \o brand_camera \o "_cam.usd"
        s1 == tt_get_or_create_xform(s0, camera_target)
    IN import_payload(s1, camera_payload, camera_target, raises)

import_lights(st, templates_dir, raises) ==
    LET s0 == default_prim_set(st)
        light_payload == templates_dir \o "/ABC/lights.usd"
        s1 == tt_get_or_create_scope(s0, light_target)
    IN import_payload(s1, light_payload, light_target, raises)

-----------------------------------------------------------------------------
(* USDTools.hide_all_scopes_except and its helpers *)

SCOPES_TO_KEEP == <<"Models", "Setup", "Lights", "Cameras">>

\* find_scope_by_name without the IsA(UsdGeom.Scope) test
find_scope_by_name_any_type(st, scope_name) ==
    LET hits == SelectSeq(Traverse(st), LAMBDA p : GetName(st, p) = scope_name)
    IN IF hits = <<>> THEN "" ELSE Head(hits)

\* find_scope_by_name that returns the last Scope prim of that name
find_scope_by_name_last(st, scope_name) ==
    LET hits == SelectSeq(Traverse(st),
                          LAMBDA p : IsScope(st, p) /\ GetName(st, p) = scope_name)
    IN IF hits = <<>> THEN "" ELSE hits[Len(hits)]

\* the first Scope prim of the traversal named scope_name, "" (None) if none
find_scope_by_name(st, scope_name) ==
    LET hits == SelectSeq(Traverse(st),
                          LAMBDA p : IsScope(st, p) /\ GetName(st, p) = scope_name)
    IN IF hits = <<>> THEN "" ELSE Head(hits)

is_descendant_of(st, prim, ancestor) ==
    AncestorWalk(st, GetParent(st, prim), ancestor)

\* set_visibility that toggles the attribute when asked to hide
set_visibility_toggle(st, prim, visible) ==
    IF ~IsImageable(st, prim) THEN st
    ELSE [st EXCEPT !.visibility[prim] =
                        IF visible \/ @ = "invisible" THEN "inherited"
                        ELSE "invisible"]

set_visibility(st, prim, visible) ==
    IF ~IsImageable(st, prim) THEN st
    ELSE [st EXCEPT !.visibility[prim] =
                        IF visible THEN "inherited" ELSE "invisible"]

RECURSIVE ParentsWalk(_, _)
ParentsWalk(st, parent) ==
    IF parent = "/" THEN st
    ELSE ParentsWalk(set_visibility(st, parent, TRUE), GetParent(st, parent))

\* make_parents_visible that leaves the ancestors as they are
make_parents_visible_skipped(st, prim) == st

make_parents_visible(st, prim) == ParentsWalk(st, GetParent(st, prim))

RECURSIVE make_children_visible(_, _)
RECURSIVE ChildrenLoop(_, _)
make_children_visible(st, parent_prim) ==
    ChildrenLoop(st, GetAllChildren(st, parent_prim))
ChildrenLoop(st, children) ==
    IF children = <<>> THEN st
    ELSE LET child == Head(children)
         IN IF IsImageable(st, child)
            THEN ChildrenLoop(
                   make_children_visible(set_visibility(st, child, TRUE), child),
                   Tail(children))
            ELSE ChildrenLoop(st, Tail(children))

\* keep_scope_prims whose loop ends at the first name that names no Scope
RECURSIVE KeepScopePrims_stop_at_missing(_, _)
KeepScopePrims_stop_at_missing(st, keep_scopes) ==
    IF keep_scopes = <<>> THEN <<>>
    ELSE LET Keep(scope_name, scope_prim, rest) ==
                IF scope_prim = "" THEN <<>>
                ELSE IF scope_name \notin DOMAIN rest
                     THEN (scope_name :> scope_prim) @@ rest
                     ELSE rest
         IN Keep(Head(keep_scopes), find_scope_by_name(st, Head(keep_scopes)),
                 KeepScopePrims_stop_at_missing(st, Tail(keep_scopes)))

\* keep_scope_prims: the keep names that name a Scope, each with its prim
RECURSIVE KeepScopePrims(_, _)
KeepScopePrims(st, keep_scopes) ==
    IF keep_scopes = <<>> THEN <<>>
    ELSE LET Keep(scope_name, scope_prim, rest) ==
                IF scope_prim # "" /\ scope_name \notin DOMAIN rest
                THEN (scope_name :> scope_prim) @@ rest
                ELSE rest
         IN Keep(Head(keep_scopes), find_scope_by_name(st, Head(keep_scopes)),
                 KeepScopePrims(st, Tail(keep_scopes)))

\* Classify that also keeps every descendant of a keep prim
Classify_keep_subtree(st, prim, target_scope_prim, keep_scope_prims) ==
    IF prim = target_scope_prim THEN "target"
    ELSE IF is_descendant_of(st, prim, target_scope_prim) THEN "child"
    ELSE IF \E n \in DOMAIN keep_scope_prims :
                \/ prim = keep_scope_prims[n]
                \/ is_descendant_of(st, prim, keep_scope_prims[n])
         THEN "keep"
    ELSE "other"

\* Classify without the branch for the descendants of the target
Classify_no_child(st, prim, target_scope_prim, keep_scope_prims) ==
    IF prim = target_scope_prim THEN "target"
    ELSE IF /\ GetName(st, prim) \in DOMAIN keep_scope_prims
            /\ prim = keep_scope_prims[GetName(st, prim)]
         THEN "keep"
    ELSE "other"

\* the branch of the per-prim loop a Scope prim takes
Classify(st, prim, target_scope_prim, keep_scope_prims) ==
    IF prim = target_scope_prim THEN "target"
    ELSE IF is_descendant_of(st, prim, target_scope_prim) THEN "child"
    ELSE IF /\ GetName(st, prim) \in DOMAIN keep_scope_prims
            /\ prim = keep_scope_prims[GetName(st, prim)]
         THEN "keep"
    ELSE "other"

\* the loop over stage.Traverse() without the IsA(UsdGeom.Scope) test: it
\* treats every imageable prim as it treats a Scope
RECURSIVE ProcessScopes_any_type(_, _, _, _)
ProcessScopes_any_type(acc, trav, target_scope_prim, keep_scope_prims) ==
    IF trav = <<>> THEN acc
    ELSE LET Visit(st, prim) ==
                IF ~IsImageable(st, prim) THEN acc
                ELSE IF Classify(st, prim, target_scope_prim, keep_scope_prims)
                            # "other"
                     THEN [acc EXCEPT
                             !.stage = make_children_visible(
                                         set_visibility(st, prim, TRUE), prim),
                             !.visible_scopes = Append(@, GetName(st, prim))]
                     ELSE [acc EXCEPT
                             !.stage = set_visibility(st, prim, FALSE),
                             !.hidden_scopes = Append(@, GetName(st, prim))]
         IN ProcessScopes_any_type(Visit(acc.stage, Head(trav)), Tail(trav),
                                   target_scope_prim, keep_scope_prims)

\* the loop "for prim in stage.Traverse()"; acc carries the stage and the
\* visible_scopes and hidden_scopes lists
RECURSIVE ProcessScopes(_, _, _, _)
ProcessScopes(acc, trav, target_scope_prim, keep_scope_prims) ==
    IF trav = <<>> THEN acc
    ELSE LET Visit(st, prim) ==
                IF ~IsScope(st, prim) THEN acc
                ELSE IF Classify(st, prim, target_scope_prim, keep_scope_prims)
                            # "other"
                     THEN [acc EXCEPT
                             !.stage = make_children_visible(
                                         set_visibility(st, prim, TRUE), prim),
                             !.visible_scopes = Append(@, GetName(st, prim))]
                     ELSE [acc EXCEPT
                             !.stage = set_visibility(st, prim, FALSE),
                             !.hidden_scopes = Append(@, GetName(st, prim))]
         IN ProcessScopes(Visit(acc.stage, Head(trav)), Tail(trav),
                          target_scope_prim, keep_scope_prims)

\* the keep loop of make_parents_visible left out
KeepParentsVisible_skipped(st, keep_scopes, keep_scope_prims) == st

RECURSIVE KeepParentsVisible(_, _, _)
KeepParentsVisible(st, keep_scopes, keep_scope_prims) ==
    IF keep_scopes = <<>> THEN st
    ELSE LET scope_name == Head(keep_scopes)
         IN KeepParentsVisible(
              IF scope_name \in DOMAIN keep_scope_prims
              THEN make_parents_visible(st, keep_scope_prims[scope_name])
              ELSE st,
              Tail(keep_scopes), keep_scope_prims)

hide_all_scopes_except(st, target_scope_name, keep_scopes) ==
    LET Report(target_scope_prim, keep_scope_prims, looped) ==
            [stage |-> KeepParentsVisible(
                         make_parents_visible(looped.stage, target_scope_prim),
                         keep_scopes, keep_scope_prims),
             outcome |-> "Success", target |-> target_scope_prim,
             keep |-> keep_scope_prims,
             visible_scopes |-> looped.visible_scopes,
             hidden_scopes |-> looped.hidden_scopes,
             warnings |-> 0]
        Loop(target_scope_prim, keep_scope_prims) ==
            Report(target_scope_prim, keep_scope_prims,
                   ProcessScopes(
                     [stage |-> st, visible_scopes |-> <<>>, hidden_scopes |-> <<>>],
                     Traverse(st), target_scope_prim, keep_scope_prims))
        Find(target_scope_prim) ==
            IF target_scope_prim = ""
            THEN [stage |-> st, outcome |-> "TargetNotFound", target |-> "",
                  keep |-> <<>>, visible_scopes |-> <<>>, hidden_scopes |-> <<>>,
                  warnings |-> 0]
            ELSE Loop(target_scope_prim, KeepScopePrims(st, keep_scopes))
    IN IF ~st.open
       THEN [stage |-> st, outcome |-> "NoActiveDocument", target |-> "",
             keep |-> <<>>, visible_scopes |-> <<>>, hidden_scopes |-> <<>>,
             warnings |-> 0]
       ELSE Find(find_scope_by_name(st, target_scope_name))

-----------------------------------------------------------------------------
(* TheliosLogic._create_hierarchy_and_import_payload: sku_prim_path *)

\* sku_prim_path with the release and the sku exchanged
SkuPrimPath_swapped(model_value, sku, release) ==
    "/World/Models/glass_Xform/" \o model_value \o "_Xform/Release_" \o sku
        \o "/" \o model_value \o "_" \o release

SkuPrimPath(model_value, sku, release) ==
    "/World/Models/glass_Xform/" \o model_value \o "_Xform/Release_" \o release
        \o "/" \o model_value \o "_" \o sku

BLOB_USD_PATH == "U:\\01_USD"

BRANDS_DICT ==
    [CD |-> "Dior Femme", DM |-> "Dior Homme", BP |-> "Barton Perreira",
     BV |-> "Bulgari", CL |-> "Celine", FE |-> "Fendi", GV |-> "Givenchy",
     TH |-> "Tag Heuer", VU |-> "Vuarnet", LW |-> "Loewe", KZ |-> "Kenzo",
     LV |-> "Louis Vuitton"]

\* the brand of code[:2] with "_" for " "; the f-string of payload_file_path
\* renders the None of an unknown code as "None"
get_brand_from_code(code) ==
    LET key == SubSeq(code, 1, IF Len(code) < 2 THEN Len(code) ELSE 2)
    IN IF key \in DOMAIN BRANDS_DICT THEN ReplaceSpaces(BRANDS_DICT[key])
       ELSE "None"

PayloadFilePath(model_value, sku) ==
    BLOB_USD_PATH \o "\\" \o get_brand_from_code(model_value) \o "\\01_Models\\"
        \o model_value \o "\\sku\\" \o model_value \o "_" \o sku \o ".usd"

\* the loop "for data in get_selected" that ends at the first import that
\* does not succeed
RECURSIVE BatchLoop_stop_at_failure(_, _, _, _)
BatchLoop_stop_at_failure(acc, model_value, get_selected, raises) ==
    IF get_selected = <<>> THEN acc
    ELSE LET Collect(r) ==
                [stage |-> r.stage,
                 outcomes |-> Append(acc.outcomes, r.outcome),
                 prims |-> Append(acc.prims, r.prim),
                 warnings |-> acc.warnings + r.warnings]
             Item(sku, release) ==
                Collect(import_payload(
                          create_hierarchy_structure(acc.stage, model_value,
                                                     sku, release),
                          PayloadFilePath(model_value, sku),
                          SkuPrimPath(model_value, sku, release),
                          (Len(acc.outcomes) + 1) \in raises))
             Go(next) ==
                IF next.outcomes[Len(next.outcomes)] # "Success" THEN next
                ELSE BatchLoop_stop_at_failure(next, model_value,
                                               Tail(get_selected), raises)
         IN Go(Item(Head(get_selected)[1], Head(get_selected)[2]))

\* the loop "for data in get_selected" (data = (sku, release)); acc carries
\* the stage, the outcome of each import_payload with the prim it returned,
\* and the number of warnings posted; raises holds the positions of the
\* pairs whose AddPayload command raises
RECURSIVE BatchLoop(_, _, _, _)
BatchLoop(acc, model_value, get_selected, raises) ==
    IF get_selected = <<>> THEN acc
    ELSE LET Collect(r) ==
                [stage |-> r.stage,
                 outcomes |-> Append(acc.outcomes, r.outcome),
                 prims |-> Append(acc.prims, r.prim),
                 warnings |-> acc.warnings + r.warnings]
             Item(sku, release) ==
                Collect(import_payload(
                          create_hierarchy_structure(acc.stage, model_value,
                                                     sku, release),
                          PayloadFilePath(model_value, sku),
                          SkuPrimPath(model_value, sku, release),
                          (Len(acc.outcomes) + 1) \in raises))
         IN BatchLoop(Item(Head(get_selected)[1], Head(get_selected)[2]),
                      model_value, Tail(get_selected), raises)

\* ends with post_notification_info("Payloads imported successfully")
create_hierarchy_and_import_payload(st, model_value, get_selected, raises) ==
    LET Done(r) == [stage |-> r.stage, outcomes |-> r.outcomes, prims |-> r.prims,
                    warnings |-> r.warnings, infos |-> 1]
    IN Done(BatchLoop([stage |-> st, outcomes |-> <<>>, prims |-> <<>>,
                       warnings |-> 0], model_value, get_selected, raises))

-----------------------------------------------------------------------------
(* Inputs *)

ModelNames == {"M"}
SkuNames == {"A", "B_Xform"}
Releases == {"1", ""}

AssetPaths ==
    {"U:\\01_USD\\a.usd", "U:\\01_USD", "/nonexistent/x.usd",
     "omniverse://srv/a.usd", "omniverse://srv/missing.usd"}

TargetPaths ==
    {SkuPrimPath("M", "A", "1"), SkuPrimPath("M", "A", ""),
     SkuPrimPath("M", "A", "1") \o "/M_A"}

TargetNames == {"M_A", "M_B_Xform", "glass_Xform"}

KeepLists == {SCOPES_TO_KEEP, <<>>}

-----------------------------------------------------------------------------

\* the capture extension before its first start()
NoCapture == [busy |-> FALSE, folder |-> "", file_name |-> "",
              start_frame |-> 0, end_frame |-> 0]

\* no modal window, no render queue, and an output folder without frames
RenderIdle ==
    /\ modal = FALSE
    /\ queues = <<>>
    /\ running = 0
    /\ capture = NoCapture
    /\ dirs = {}
    /\ files = {}

Init ==
    /\ stage \in {[EmptyStage EXCEPT !.loadRules = r] : r \in {"LoadAll", "LoadNone"}}
    /\ last = [op |-> "none"]
    /\ RenderIdle

\* with no stage the first stage.GetPrimAtPath raises before any effect
CreateHierarchyStructure(model_name, sku_name, release) ==
    LET Done(st) ==
            /\ stage' = st
            /\ last' = [op |-> "create_hierarchy_structure",
                        model_name |-> model_name, sku_name |-> sku_name,
                        release |-> release,
                        created |-> Len(st.prims) - Len(stage.prims)]
    IN /\ stage.open
       /\ Done(create_hierarchy_structure(stage, model_name, sku_name, release))
       /\ UNCHANGED rvars

NumPayloads(st) ==
    LET RECURSIVE Sum(_)
        Sum(i) == IF i = 0 THEN 0 ELSE Len(st.payloads[st.prims[i]]) + Sum(i - 1)
    IN Sum(Len(st.prims))

ImportPayload(payload_usd_path, target_path, raises) ==
    LET Done(r) ==
            /\ stage' = r.stage
            /\ last' = [op |-> "import_payload", path |-> target_path,
                        asset |-> payload_usd_path, outcome |-> r.outcome,
                        prim |-> r.prim, warnings |-> r.warnings,
                        notification |-> r.notification, escaped |-> r.escaped,
                        before |-> IF IsValid(stage, r.prim)
                                   THEN stage.payloads[r.prim] ELSE <<>>,
                        loadRules |-> stage.loadRules,
                        created |-> Len(r.stage.prims) - Len(stage.prims)]
    IN /\ Done(import_payload(stage, payload_usd_path, target_path, raises))
       /\ UNCHANGED rvars

\* the call with its report, as the render queue and the view slider make it
HideAllScopesExceptCall(target_scope_name, keep_scopes) ==
    LET Done(r) ==
            /\ stage' = r.stage
            /\ last' = [op |-> "hide_all_scopes_except", name |-> target_scope_name,
                        keep_scopes |-> keep_scopes, outcome |-> r.outcome,
                        target |-> r.target, keep |-> r.keep,
                        visible_scopes |-> r.visible_scopes,
                        hidden_scopes |-> r.hidden_scopes,
                        warnings |-> r.warnings,
                        shown |-> {p \in DOMAIN stage.visibility :
                                     /\ stage.visibility[p] = "invisible"
                                     /\ r.stage.visibility[p] = "inherited"}]
    IN Done(hide_all_scopes_except(stage, target_scope_name, keep_scopes))

HideAllScopesExcept(target_scope_name, keep_scopes) ==
    /\ HideAllScopesExceptCall(target_scope_name, keep_scopes)
    /\ UNCHANGED rvars

\* with no stage the first stage.GetPrimAtPath raises before any effect
ImportCamera(brand_camera_value, templates_dir) ==
    LET Done(r) ==
            /\ stage' = r.stage
            /\ last' = [op |-> "_import_camera", outcome |-> r.outcome,
                        prim |-> r.prim, warnings |-> r.warnings,
                        created |-> Len(r.stage.prims) - Len(stage.prims)]
    IN /\ stage.open
       /\ Done(import_camera(stage, brand_camera_value, templates_dir, FALSE))
       /\ UNCHANGED rvars

ImportLights(templates_dir) ==
    LET Done(r) ==
            /\ stage' = r.stage
            /\ last' = [op |-> "_import_lights", outcome |-> r.outcome,
                        prim |-> r.prim, warnings |-> r.warnings,
                        created |-> Len(r.stage.prims) - Len(stage.prims)]
    IN /\ stage.open
       /\ Done(import_lights(stage, templates_dir, FALSE))
       /\ UNCHANGED rvars

\* the bound of a specification: the next stage has at most max_prims prims
\* and max_payloads payloads
Within(max_prims, max_payloads) ==
    /\ Len(stage'.prims) <= max_prims
    /\ NumPayloads(stage') <= max_payloads

Next ==
    \/ \E m \in ModelNames, s \in SkuNames, r \in Releases :
        CreateHierarchyStructure(m, s, r) /\ Within(MaxPrims, MaxPayloads)
    \/ \E a \in AssetPaths, t \in TargetPaths :
        ImportPayload(a, t, FALSE) /\ Within(MaxPrims, MaxPayloads)
    \/ \E t \in TargetNames, k \in KeepLists : HideAllScopesExcept(t, k)

Spec == Init /\ [][Next]_vars

-----------------------------------------------------------------------------
(* Attaching: import_payload with and without a stage, with an AddPayload  *)
(* command that may raise, and two assets that exist                       *)

AttachAssets ==
    {"U:\\01_USD\\a.usd", "omniverse://srv/a.usd", "/nonexistent/x.usd"}
AttachTargets == {SkuPrimPath("M", "A", "1"), SkuPrimPath("M", "B_Xform", "1")}
AttachTargetNames == {"M_A", "Setup"}

InitAttach ==
    /\ stage \in {[EmptyStage EXCEPT !.loadRules = r] : r \in {"LoadAll", "LoadNone"}}
                 \cup {NoStage}
    /\ last = [op |-> "none"]
    /\ RenderIdle

NextAttach ==
    \/ \E a \in AttachAssets, t \in AttachTargets, x \in BOOLEAN :
        ImportPayload(a, t, x) /\ Within(MaxPrims, MaxAttachPayloads)
    \/ \E t \in AttachTargetNames : HideAllScopesExcept(t, SCOPES_TO_KEEP)

SpecAttach == InitAttach /\ [][NextAttach]_vars

-----------------------------------------------------------------------------
(* The batch import of the selected (sku, release) pairs of model M; the   *)
(* asset of SKU A exists, the asset of SKU B does not                      *)

SelectedItems == {<<"A", "1">>, <<"A", "2">>, <<"B", "1">>}
Selections ==
    {<<x>> : x \in SelectedItems}
        \cup {g \in SelectedItems \X SelectedItems : g[1] # g[2]}

BatchTargetNames == {"M_A", "M_B"}
BatchKeepLists == KeepLists \cup {<<"M_A">>}

\* with no stage the first stage.GetPrimAtPath raises before any effect
CreateHierarchyAndImportPayload(model_value, get_selected, raises) ==
    LET Done(r) ==
            /\ stage' = r.stage
            /\ last' = [op |-> "_create_hierarchy_and_import_payload",
                        model_value |-> model_value, get_selected |-> get_selected,
                        raises |-> raises,
                        outcomes |-> r.outcomes, prims |-> r.prims,
                        warnings |-> r.warnings, infos |-> r.infos]
    IN /\ stage.open
       /\ get_selected # <<>>
       /\ Done(create_hierarchy_and_import_payload(stage, model_value, get_selected,
                                                   raises))
       /\ UNCHANGED rvars

\* the positions of the selection whose AddPayload command raises
BatchRaises == {{}, {1}}

NextBatch ==
    \/ \E g \in Selections, x \in BatchRaises :
        CreateHierarchyAndImportPayload("M", g, x)
            /\ Within(MaxBatchPrims, MaxPayloads)
    \/ \E t \in BatchTargetNames, k \in BatchKeepLists : HideAllScopesExcept(t, k)

SpecBatch == Init /\ [][NextBatch]_vars

-----------------------------------------------------------------------------
(* The scene: template imports, hierarchy, import and isolation together *)

SceneSkuNames == {"A", "B_Xform"}
SceneTargetPaths == {SkuPrimPath("M", "B_Xform", "1")}
SceneTargetNames == {"Setup", "M_A"}
SceneKeepLists == {SCOPES_TO_KEEP, <<"Lights">>, <<>>}
BrandCameras == {"Dior Femme"}
TemplatesDirs == {"U:\\02_TOOLS\\01_Template"}

NextScene ==
    \/ \E b \in BrandCameras, d \in TemplatesDirs : ImportCamera(b, d)
    \/ \E d \in TemplatesDirs : ImportLights(d)
    \/ \E s \in SceneSkuNames :
        CreateHierarchyStructure("M", s, "1") /\ Within(MaxScenePrims, MaxPayloads)
    \/ \E t \in SceneTargetPaths :
        ImportPayload("U:\\01_USD\\a.usd", t, FALSE)
            /\ Within(MaxScenePrims, MaxPayloads)
    \/ \E t \in SceneTargetNames, k \in SceneKeepLists : HideAllScopesExcept(t, k)

SpecScene == Init /\ [][NextScene]_vars

-----------------------------------------------------------------------------
(* The render panel: USDTools.get_filtered_scopes, the render selection of *)
(* TheliosLogic, _render_queue, and OmniCustomSequenceRenderer             *)
(* (tools/render/custom_render_sequence.py).                               *)
(*                                                                         *)
(* The callbacks and the coroutines run on the one event loop of the host: *)
(* running is the queue whose coroutine holds the loop (0 when the loop is *)
(* idle), and a coroutine gives the loop back only at an await that        *)
(* suspends, which in _render_queue is the asyncio.sleep of                *)
(* wait_for_render_completion.  The timeout of 600 polls is WaitTimeout.   *)

EndsWith(s, p) == Len(s) >= Len(p) /\ SubSeq(s, Len(s) - Len(p) + 1, Len(s)) = p

\* prim.IsLoaded(): the prim has no payload on itself or above itself, or
\* the load rules of the stage load every payload
IsLoaded(st, path) ==
    \/ st.loadRules = "LoadAll"
    \/ \A a \in DOMAIN st.payloads :
          (a = path \/ StartsWith(path, a \o "/")) => st.payloads[a] = <<>>

get_filtered_scopes(st) ==
    LET scopes == SelectSeq(Traverse(st),
                    LAMBDA p : /\ st.typeName[p] = "Scope"
                               /\ StartsWith(p, "/World/Models")
                               /\ ~EndsWith(GetName(st, p), "Looks")
                               /\ ~EndsWith(GetName(st, p), "mtl")
                               /\ IsLoaded(st, p))
        Filter(parts) ==
            ~StartsWith(parts[Len(parts)], "Release_") /\ Len(parts) <= 7
        Names(filtered) ==
            [i \in 1..Len(filtered) |->
                LET Last(parts) == parts[Len(parts)]
                IN Last(Split(filtered[i], "/"))]
        Rest(final_list) ==
            IF final_list = <<>> THEN <<>> ELSE Tail(final_list)
    IN Rest(Names(SelectSeq(scopes, LAMBDA sc : Filter(Split(sc, "/")))))

\* one entry of checkbox_render_data: the model and the sku of the item
RenderItem(item) ==
    LET Parts(p) == [model |-> p[1], sku |-> p[2]]
    IN Parts(Split(item, "_"))

\* f"{data['model']}_{data['sku']}"
RenderName(data) == data.model \o "_" \o data.sku

\* the names _get_selected_items_render returns when the checkboxes at the
\* positions of checked are ticked
get_selected_items_render(payload_list, checked) ==
    LET ticked == SelectSeq([i \in 1..Len(payload_list) |-> i],
                            LAMBDA i : i \in checked)
    IN [k \in 1..Len(ticked) |-> RenderName(RenderItem(payload_list[ticked[k]]))]

EXT == "png"
poll_interval == 1

\* str(n) of a natural number
Digit(d) == SubSeq("0123456789", d + 1, d + 1)
RECURSIVE Str(_)
Str(n) == IF n < 10 THEN Digit(n) ELSE Str(n \div 10) \o Digit(n % 10)

\* [f"{sku_name}.0{frame}.{ext}" for frame in range(start_frame, end_frame+1)]
expected_files(sku_name, start_frame, end_frame, ext) ==
    [k \in 1..(IF end_frame < start_frame THEN 0 ELSE end_frame - start_frame + 1)
        |-> sku_name \o ".0" \o Str(start_frame + k - 1) \o "." \o ext]

\* os.path.join(output_path, f"{sku_name}_frames")
frames_dir(output_path, sku_name) == output_path \o "\\" \o sku_name \o "_frames"

\* one pass of the while loop that sleeps forever between two listings
wait_poll_no_timeout(elapsed, timeout, output_path, expected, ds, fs) ==
    IF output_path \notin ds THEN "False"
    ELSE IF SelectSeq(expected, LAMBDA f : <<output_path, f>> \notin fs) = <<>>
         THEN "True"
    ELSE "sleep"

\* one pass of the while loop of wait_for_render_completion: "True" or
\* "False" when the pass returns, "sleep" when it awaits asyncio.sleep;
\* ds are the folders os.listdir can list, fs the files in them
wait_poll(elapsed, timeout, output_path, expected, ds, fs) ==
    IF ~(elapsed < timeout) THEN "False"
    ELSE IF output_path \notin ds THEN "False"
    ELSE IF SelectSeq(expected, LAMBDA f : <<output_path, f>> \notin fs) = <<>>
         THEN "True"
    ELSE "sleep"

\* the file the capture extension writes for a frame, with
\* _file_name_num_pattern ".##"
capture_file(file_name, frame) ==
    file_name \o "." \o (IF frame < 10 THEN "0" ELSE "") \o Str(frame) \o "." \o EXT

ExportPaths == {"C:\\out"}
RenderModes == {"sequence", "single", "none"}
FrameRanges == {<<1, 2>>}
SingleFrames == {1}

\* the "Render Selected" button: _render_selected_skus_async
RenderSelectedSkusAsync(export_path) ==
    LET Ask(payload_list) ==
            /\ modal' = (payload_list # <<>> /\ export_path # "")
            /\ last' = [op |-> "_render_selected_skus_async",
                        warnings |-> IF payload_list # <<>> /\ export_path # ""
                                     THEN 0 ELSE 1]
    IN /\ running = 0
       /\ ~modal
       /\ stage.open
       /\ Ask(get_filtered_scopes(stage))
       /\ UNCHANGED <<stage, queues, running, capture, dirs, files>>

\* the "No" button of the modal window: close_modal_window_me
CloseModalWindow ==
    /\ running = 0
    /\ modal
    /\ modal' = FALSE
    /\ UNCHANGED <<stage, last, queues, running, capture, dirs, files>>

\* the number of names the render queues qs have been started with
RECURSIVE Renders(_)
Renders(qs) ==
    IF qs = <<>> THEN 0 ELSE Len(Head(qs).selected_skus) + Renders(Tail(qs))

\* the "Yes" button of the modal window: ok_btn schedules a _render_queue
\* with the names of the ticked items and leaves the window open
OkBtn(checked) ==
    LET Schedule(selected_skus) ==
            /\ Renders(queues) + Len(selected_skus) <= MaxRenders
            /\ queues' = Append(queues,
                           [pc |-> "scheduled", selected_skus |-> selected_skus,
                            i |-> 0, start_frame |-> 0, end_frame |-> 0,
                            export_path |-> "", output_path |-> "",
                            elapsed |-> 0, polls |-> 0, trace |-> <<>>,
                            isolated |-> <<>>])
    IN /\ running = 0
       /\ modal
       /\ stage.open
       /\ Len(queues) < MaxQueues
       /\ Schedule(get_selected_items_render(get_filtered_scopes(stage), checked))
       /\ UNCHANGED <<stage, last, modal, running, capture, dirs, files>>

\* the view slider: _on_slider_changed of the view panel
OnSliderChanged(v) ==
    LET Show(payload_list) ==
            /\ v \in 1..Len(payload_list)
            /\ HideAllScopesExceptCall(payload_list[v], SCOPES_TO_KEEP)
    IN /\ running = 0
       /\ ~modal
       /\ stage.open
       /\ Show(get_filtered_scopes(stage))
       /\ UNCHANGED rvars

\* the coroutine of _render_queue starts: it reads the settings of the
\* panel and enters the loop over selected_skus, or returns when no render
\* type is ticked
RenderQueueBegin(q, mode, range, single_frame, export_path) ==
    /\ running = 0
    /\ q \in 1..Len(queues)
    /\ queues[q].pc = "scheduled"
    /\ queues' = [queues EXCEPT ![q] =
            IF mode = "none" \/ @.selected_skus = <<>>
            THEN [@ EXCEPT !.pc = "done"]
            ELSE [@ EXCEPT !.pc = "isolate", !.i = 1,
                           !.export_path = export_path,
                           !.start_frame = IF mode = "sequence" THEN range[1]
                                           ELSE single_frame,
                           !.end_frame = IF mode = "sequence" THEN range[2]
                                         ELSE single_frame]]
    /\ running' = IF mode = "none" \/ queues[q].selected_skus = <<>> THEN 0 ELSE q
    /\ UNCHANGED <<stage, last, modal, capture, dirs, files>>

\* self._get_selected_scope_string(model) for the model at position i;
\* isolated keeps the visibility the call left, for the properties
RenderQueueIsolate(q) ==
    /\ running = q
    /\ queues[q].pc = "isolate"
    /\ HideAllScopesExceptCall(queues[q].selected_skus[queues[q].i], SCOPES_TO_KEEP)
    /\ queues' = [queues EXCEPT ![q] =
            [@ EXCEPT !.pc = "capture",
                      !.isolated = stage'.visibility,
                      !.trace = Append(@, [ev |-> "isolate",
                                           sku |-> queues[q].selected_skus[queues[q].i]])]]
    /\ UNCHANGED <<modal, running, capture, dirs, files>>

\* start_capture_extension_render_async that does not await the wait, as
\* the loop of _render_selected_skus goes on without waiting
RenderQueueStartCapture_no_wait(q, makes_folder) ==
    LET Start(c, sku) ==
            /\ dirs' = IF makes_folder
                       THEN dirs \cup {frames_dir(c.export_path, sku)} ELSE dirs
            /\ capture' = [busy |-> c.start_frame <= c.end_frame,
                           folder |-> c.export_path, file_name |-> sku,
                           start_frame |-> c.start_frame, end_frame |-> c.end_frame]
            /\ queues' = [queues EXCEPT ![q] =
                    [@ EXCEPT !.pc = IF c.i < Len(c.selected_skus) THEN "isolate"
                                     ELSE "done",
                              !.i = IF c.i < Len(c.selected_skus) THEN @ + 1 ELSE @,
                              !.trace = Append(@, [ev |-> "capture", sku |-> sku])]]
            /\ running' = IF c.i < Len(c.selected_skus) THEN q ELSE 0
    IN /\ running = q
       /\ queues[q].pc = "capture"
       /\ Start(queues[q], queues[q].selected_skus[queues[q].i])
       /\ UNCHANGED <<stage, last, modal, files>>

\* start_capture_extension_render_async up to its await: the options of
\* the capture extension, capture_extension.start(), and the first lines of
\* wait_for_render_completion.  makes_folder: start() makes the folder of
\* the frames before it returns (otherwise the extension makes it later)
RenderQueueStartCapture(q, makes_folder) ==
    LET Start(c, sku) ==
            /\ dirs' = IF makes_folder
                       THEN dirs \cup {frames_dir(c.export_path, sku)} ELSE dirs
            /\ capture' = [busy |-> c.start_frame <= c.end_frame,
                           folder |-> c.export_path, file_name |-> sku,
                           start_frame |-> c.start_frame, end_frame |-> c.end_frame]
            /\ queues' = [queues EXCEPT ![q] =
                    [@ EXCEPT !.pc = "poll", !.elapsed = 0, !.polls = 0,
                              !.output_path = frames_dir(c.export_path, sku),
                              !.trace = Append(@, [ev |-> "capture", sku |-> sku])]]
    IN /\ running = q
       /\ queues[q].pc = "capture"
       /\ Start(queues[q], queues[q].selected_skus[queues[q].i])
       /\ UNCHANGED <<stage, last, modal, running, files>>

\* one pass of the loop of wait_for_render_completion; when the wait
\* returns, _render_queue goes on with the next model or ends
RenderQueuePoll(q) ==
    LET Pass(c, sku, res) ==
            /\ queues' = [queues EXCEPT ![q] =
                    IF res = "sleep"
                    THEN [@ EXCEPT !.pc = "sleep", !.polls = @ + 1]
                    ELSE [@ EXCEPT
                            !.pc = IF c.i < Len(c.selected_skus) THEN "isolate"
                                   ELSE "done",
                            !.i = IF c.i < Len(c.selected_skus) THEN @ + 1 ELSE @,
                            !.polls = IF c.elapsed < WaitTimeout THEN @ + 1 ELSE @,
                            !.trace = Append(@, [ev |-> "waited", sku |-> sku,
                                                 result |-> res])]]
            /\ running' = IF res = "sleep" \/ ~(c.i < Len(c.selected_skus))
                          THEN 0 ELSE q
    IN /\ running = q
       /\ queues[q].pc = "poll"
       /\ Pass(queues[q], queues[q].selected_skus[queues[q].i],
               wait_poll(queues[q].elapsed, WaitTimeout, queues[q].output_path,
                         expected_files(queues[q].selected_skus[queues[q].i],
                                        queues[q].start_frame, queues[q].end_frame,
                                        EXT),
                         dirs, files))
       /\ UNCHANGED <<stage, last, modal, capture, dirs, files>>

\* asyncio.sleep(poll_interval) ends: elapsed += poll_interval
RenderQueueWake(q) ==
    /\ running = 0
    /\ q \in 1..Len(queues)
    /\ queues[q].pc = "sleep"
    /\ queues' = [queues EXCEPT ![q] =
            [@ EXCEPT !.pc = "poll", !.elapsed = @ + poll_interval]]
    /\ running' = q
    /\ UNCHANGED <<stage, last, modal, capture, dirs, files>>

\* the capture extension makes the folder of the frames
CaptureMakesFolder ==
    /\ running = 0
    /\ capture.file_name # ""
    /\ frames_dir(capture.folder, capture.file_name) \notin dirs
    /\ dirs' = dirs \cup {frames_dir(capture.folder, capture.file_name)}
    /\ UNCHANGED <<stage, last, modal, queues, running, capture, files>>

\* the capture extension writes the file of a frame of the running
\* capture, the frames in their order
CaptureWritesFrame(frame) ==
    LET Write(dir, file) ==
            /\ dir \in dirs
            /\ <<dir, file>> \notin files
            /\ files' = files \cup {<<dir, file>>}
            /\ capture' = [capture EXCEPT !.busy =
                    \E f \in capture.start_frame..capture.end_frame :
                        <<dir, capture_file(capture.file_name, f)>> \notin files']
    IN /\ running = 0
       /\ capture.busy
       /\ frame \in capture.start_frame..capture.end_frame
       /\ \A f \in capture.start_frame..(frame - 1) :
             <<frames_dir(capture.folder, capture.file_name),
               capture_file(capture.file_name, f)>> \in files
       /\ Write(frames_dir(capture.folder, capture.file_name),
                capture_file(capture.file_name, frame))
       /\ UNCHANGED <<stage, last, modal, queues, running, dirs>>

CheckedSets == {{1}, {1, 2}}

\* the positions the view slider is moved to
SliderValues == {2}

NextRender ==
    \/ \E e \in ExportPaths : RenderSelectedSkusAsync(e)
    \/ CloseModalWindow
    \/ \E c \in CheckedSets : OkBtn(c)
    \/ \E v \in SliderValues : OnSliderChanged(v)
    \/ \E q \in 1..MaxQueues, m \in RenderModes, r \in FrameRanges,
          f \in SingleFrames, e \in ExportPaths : RenderQueueBegin(q, m, r, f, e)
    \/ \E q \in 1..MaxQueues : RenderQueueIsolate(q)
    \/ \E q \in 1..MaxQueues, m \in BOOLEAN : RenderQueueStartCapture(q, m)
    \/ \E q \in 1..MaxQueues : RenderQueuePoll(q)
    \/ \E q \in 1..MaxQueues : RenderQueueWake(q)
    \/ CaptureMakesFolder
    \/ \E f \in 1..2 : CaptureWritesFrame(f)

\* the stage with the SKU scopes M_A and M_B of release 1
RenderStage ==
    create_hierarchy_structure(
        create_hierarchy_structure(EmptyStage, "M", "A", "1"), "M", "B", "1")

InitRender ==
    /\ stage = RenderStage
    /\ last = [op |-> "none"]
    /\ RenderIdle

SpecRender == InitRender /\ [][NextRender]_vars

\* the render types of the panel when the waits are followed: a sequence
\* of two frames, or none
WaitModes == {"sequence", "none"}

\* the render panel without the view slider
NextWait ==
    \/ \E e \in ExportPaths : RenderSelectedSkusAsync(e)
    \/ CloseModalWindow
    \/ \E c \in CheckedSets : OkBtn(c)
    \/ \E q \in 1..MaxQueues, m \in WaitModes, r \in FrameRanges,
          f \in SingleFrames, e \in ExportPaths : RenderQueueBegin(q, m, r, f, e)
    \/ \E q \in 1..MaxQueues : RenderQueueIsolate(q)
    \/ \E q \in 1..MaxQueues, m \in BOOLEAN : RenderQueueStartCapture(q, m)
    \/ \E q \in 1..MaxQueues : RenderQueuePoll(q)
    \/ \E q \in 1..MaxQueues : RenderQueueWake(q)
    \/ CaptureMakesFolder
    \/ \E f \in 1..2 : CaptureWritesFrame(f)

\* the queue q holds the event loop before an isolation or a capture start
Pending(q) ==
    /\ running = q
    /\ (IF q \in 1..Len(queues) THEN queues[q].pc ELSE "none")
           \in {"isolate", "capture"}

\* the event loop runs a coroutine on: the code between two awaits runs to
\* its end, the pass of the wait that holds the event loop runs to its
\* return or to its sleep, and a sleep ends.  RenderQueueIsolate and
\* RenderQueueStartCapture are enabled exactly when Pending holds and end
\* it, so that their weak fairness is []<>~Pending
SpecRenderFair ==
    /\ InitRender /\ [][NextWait]_vars
    /\ \A q \in 1..MaxQueues :
          /\ []<>~Pending(q)
          /\ WF_vars(RenderQueuePoll(q))
          /\ WF_vars(RenderQueueWake(q))

-----------------------------------------------------------------------------
(* Vocabulary of the properties *)

Prims == DOMAIN stage.typeName
ScopePrims == {p \in Prims : stage.typeName[p] = "Scope"}
Visible(p) == stage.visibility[p] = "inherited"
Hidden(p) == stage.visibility[p] = "invisible"

\* p lies strictly below a in the namespace
Below(p, a) == StartsWith(p, a \o "/")

Isolated == last.op = "hide_all_scopes_except" /\ last.outcome = "Success"
KeepFound == {last.keep[n] : n \in DOMAIN last.keep}
Roots == {last.target} \cup KeepFound

\* the SKU scopes: the Scope prims directly under a release scope
SkuScopes ==
    {p \in ScopePrims : /\ StartsWith(p, "/World/Models/glass_Xform/")
                        /\ Len(Split(p, "/")) = 7}

\* the path and every proper prefix of it that ends before a "/"
Prefixes(path) ==
    {path} \cup {SubSeq(path, 1, i - 1) :
                    i \in {j \in 2..Len(path) : SubSeq(path, j, j) = "/"}}

Occurrences(st, path) == Cardinality({i \in 1..Len(st.prims) : st.prims[i] = path})

-----------------------------------------------------------------------------
(* C1 *)

\* C1 (as claimed): after a successful hide_all_scopes_except, a Scope prim is
\* visible if and only if it is the target, below the target, a found keep
\* prim, below a found keep prim, or an ancestor of the target or of a found
\* keep prim.
C1_VisibleIffInSubtreesOrAncestors ==
    Isolated =>
        \A n \in ScopePrims :
            Visible(n) <=> \E k \in Roots : n = k \/ Below(n, k) \/ Below(k, n)

\* C1 (amended): after a successful hide_all_scopes_except, a Scope prim is
\* visible if and only if it is the target, below the target, a found keep
\* prim, or an ancestor of the target or of a found keep prim; every other
\* Scope prim, a Scope below a keep prim included, is hidden.
C1_VisibleIffTargetSubtreeKeepOrAncestors ==
    Isolated =>
        \A n \in ScopePrims :
            /\ Visible(n) <=> \/ n = last.target
                              \/ Below(n, last.target)
                              \/ n \in KeepFound
                              \/ \E k \in Roots : Below(k, n)
            /\ Visible(n) \/ Hidden(n)

\* a successful isolation that hid a Scope lying below a found keep prim and
\* made a Scope ancestor of the target visible
C1_Witness ==
    /\ Isolated
    /\ \E n \in ScopePrims : Hidden(n) /\ \E k \in KeepFound : Below(n, k)
    /\ \E n \in ScopePrims \ KeepFound : Visible(n) /\ Below(last.target, n)

-----------------------------------------------------------------------------
(* C2 *)

\* C2: an import_payload whose payload_usd_path fails check_usd_file_exists
\* leaves the whole stage (prims, payloads, load rules) as it was and ends as
\* NotFound with one warning, whatever the target path.
C2_MissingAssetNeverMutates ==
    [][\A a \in AssetPaths, t \in TargetPaths, x \in BOOLEAN :
          (~check_usd_file_exists(a) /\ ImportPayload(a, t, x)) =>
              /\ stage' = stage
              /\ last'.outcome = "NotFound"
              /\ last'.warnings = 1]_vars

\* a NotFound import whose target path names no prim of the stage, on a
\* stage whose load rules are not LoadAll
C2_Witness ==
    /\ last.op = "import_payload"
    /\ last.outcome = "NotFound"
    /\ ~IsValid(stage, last.path)
    /\ stage.loadRules = "LoadNone"

-----------------------------------------------------------------------------
(* C3 *)

\* C3: a successful import_payload appends the payload to the prim whose
\* path is the target path.
C3_PayloadLandsOnTargetPath ==
    (last.op = "import_payload" /\ last.outcome = "Success") =>
        /\ last.prim = last.path
        /\ IsValid(stage, last.path)
        /\ stage.payloads[last.path] # <<>>
        /\ stage.payloads[last.path][Len(stage.payloads[last.path])] = last.asset

-----------------------------------------------------------------------------
(* C4 *)

\* C4: in every stage, a second create_hierarchy_structure with the same
\* arguments changes nothing and every prefix of the SKU path is one prim;
\* a second _get_or_create_prim with the same path changes nothing, returns
\* the prim the first call returned, and every prefix of the path is one prim.
C4_SecondCallIsNoOp ==
    /\ \A m \in ModelNames, s \in SkuNames, r \in Releases :
          LET s1 == create_hierarchy_structure(stage, m, s, r)
              s2 == create_hierarchy_structure(s1, m, s, r)
          IN /\ s2 = s1
             /\ \A q \in Prefixes(sku_scope_path(m, s, r)) : Occurrences(s2, q) = 1
    /\ \A t \in TargetPaths :
          LET r1 == get_or_create_prim(stage, t)
              r2 == get_or_create_prim(r1.stage, t)
          IN /\ r2.stage = r1.stage
             /\ r2.prim = r1.prim
             /\ \A q \in Prefixes(t) : Occurrences(r2.stage, q) = 1

-----------------------------------------------------------------------------
(* C5 *)

\* C5: every prim of the stage is an Xform if its name is "World" or
\* contains "_Xform", and a Scope otherwise.
C5_KindFollowsName ==
    \A p \in Prims :
        stage.typeName[p] =
            IF PathName(p) = "World" \/ Contains(PathName(p), "_Xform")
            THEN "Xform" ELSE "Scope"

-----------------------------------------------------------------------------
(* C6 *)

\* C6: after a successful hide_all_scopes_except with SCOPES_TO_KEEP whose
\* target is a SKU scope, every other SKU scope that is not below the target
\* is hidden.
C6_OtherSkuScopesHidden ==
    (Isolated /\ last.keep_scopes = SCOPES_TO_KEEP /\ last.target \in SkuScopes) =>
        \A n \in SkuScopes :
            (n # last.target /\ ~Below(n, last.target)) => Hidden(n)

\* such an isolation with Models found as keep prim, another SKU scope
\* hidden and the target visible
C6_Witness ==
    /\ Isolated
    /\ last.keep_scopes = SCOPES_TO_KEEP
    /\ last.target \in SkuScopes
    /\ "/World/Models" \in KeepFound
    /\ Visible(last.target)
    /\ \E n \in SkuScopes : n # last.target /\ Hidden(n)

-----------------------------------------------------------------------------
(* C7 *)

\* C7: in every stage and for every target name and keep list, a second
\* hide_all_scopes_except with the same arguments leaves every visibility
\* attribute as the first call left it.
C7_IsolateTwiceSameVisibility ==
    \A t \in TargetNames, k \in KeepLists :
        LET r1 == hide_all_scopes_except(stage, t, k)
            r2 == hide_all_scopes_except(r1.stage, t, k)
        IN r2.stage.visibility = r1.stage.visibility

\* a stage reached by a successful isolation that hid some Scope and that a
\* repeated call with the same arguments maps to itself
C7_Witness ==
    /\ Isolated
    /\ \E n \in ScopePrims : Hidden(n)
    /\ hide_all_scopes_except(stage, last.name, last.keep_scopes).outcome = "Success"
    /\ hide_all_scopes_except(stage, last.name, last.keep_scopes).stage = stage

-----------------------------------------------------------------------------
(* C8 *)

\* C8: a hide_all_scopes_except whose target name is the name of no Scope
\* prim changes nothing in the stage and ends as TargetNotFound.
C8_TargetNotFoundNeverMutates ==
    [][\A t \in TargetNames, k \in KeepLists :
          ((~\E p \in ScopePrims : stage.name[p] = t) /\ HideAllScopesExcept(t, k)) =>
              /\ stage' = stage
              /\ last'.outcome = "TargetNotFound"]_vars

\* a TargetNotFound call with the default keep list whose target name is the
\* name of an Xform, on a stage where an earlier isolation hid a Scope
C8_Witness ==
    /\ last.op = "hide_all_scopes_except"
    /\ last.outcome = "TargetNotFound"
    /\ last.keep_scopes = SCOPES_TO_KEEP
    /\ \E p \in Prims : stage.name[p] = last.name /\ stage.typeName[p] = "Xform"
    /\ \E n \in ScopePrims : Hidden(n)

-----------------------------------------------------------------------------
(* C9 *)

\* C9: for every (model, sku, release), sku_prim_path is the six-segment path
\* /World/Models/glass_Xform/<model>_Xform/Release_<release>/<model>_<sku>,
\* and it is the path of the SKU scope create_hierarchy_structure makes for
\* the same triple.
C9_SkuPrimPathIsCanonical ==
    /\ \A m \in ModelNames, s \in SkuNames, r \in Releases :
          Split(SkuPrimPath(m, s, r), "/") =
              <<"", "World", "Models", "glass_Xform", m \o "_Xform",
                "Release_" \o r, m \o "_" \o s>>
    /\ last.op = "create_hierarchy_structure" =>
          LET p == SkuPrimPath(last.model_name, last.sku_name, last.release)
          IN /\ IsValid(stage, p)
             /\ stage.typeName[p] = "Scope"
             /\ GetName(stage, p) = last.model_name \o "_" \o last.sku_name
             /\ GetName(stage, GetParent(stage, p)) = "Release_" \o last.release

\* a create_hierarchy_structure that made the six prims of the path
C9_Witness ==
    /\ last.op = "create_hierarchy_structure"
    /\ last.created = 6
    /\ Len(stage.prims) = 6

-----------------------------------------------------------------------------
(* C10 *)

\* C10: a create_hierarchy_structure called with an empty model, sku or
\* release creates no prim.
C10_EmptyIdentifierCreatesNothing ==
    (/\ last.op = "create_hierarchy_structure"
     /\ "" \in {last.model_name, last.sku_name, last.release}) =>
        last.created = 0

-----------------------------------------------------------------------------
(* C11 *)

\* C11: a create_hierarchy_structure on a stage without prims leaves exactly
\* six prims: World (Xform), Models (Scope), glass_Xform (Xform),
\* <model>_Xform (Xform), Release_<release> (Scope) and <model>_<sku> (Scope),
\* the first a root prim and each other the child of the one before it.
C11_EmptyStageGetsSixPrimChain ==
    (last.op = "create_hierarchy_structure" /\ last.created = Len(stage.prims)) =>
        LET names == <<"World", "Models", "glass_Xform",
                       last.model_name \o "_Xform",
                       "Release_" \o last.release,
                       last.model_name \o "_" \o last.sku_name>>
            kinds == <<"Xform", "Scope", "Xform", "Xform", "Scope", "Scope">>
        IN /\ Len(stage.prims) = 6
           /\ Prims = {stage.prims[i] : i \in 1..6}
           /\ stage.prims[1] = "/World"
           /\ stage.parent[stage.prims[1]] = "/"
           /\ \A i \in 1..6 :
                 /\ stage.name[stage.prims[i]] = names[i]
                 /\ stage.typeName[stage.prims[i]] = kinds[i]
           /\ \A i \in 1..5 :
                 /\ stage.parent[stage.prims[i + 1]] = stage.prims[i]
                 /\ stage.prims[i + 1] = stage.prims[i] \o "/" \o names[i + 1]

\* a create_hierarchy_structure that found no prim and made all the prims of
\* the stage, with a SKU whose name contains "_Xform"
C11_Witness ==
    /\ last.op = "create_hierarchy_structure"
    /\ last.created = Len(stage.prims)
    /\ Len(stage.prims) > 0
    /\ last.sku_name = "B_Xform"

-----------------------------------------------------------------------------
(* C12 *)

\* World is a root Xform and the stage's default prim
WorldIsDefaultRoot ==
    /\ IsValid(stage, "/World")
    /\ stage.typeName["/World"] = "Xform"
    /\ stage.parent["/World"] = "/"
    /\ stage.defaultPrim = "/World"

\* Setup is a Scope and a child of World
SetupUnderWorld ==
    /\ IsValid(stage, "/World/Setup")
    /\ stage.typeName["/World/Setup"] = "Scope"
    /\ stage.parent["/World/Setup"] = "/World"

-----------------------------------------------------------------------------
(* C13 *)

Attached == last.op = "import_payload" /\ last.outcome = "Success"

\* the entries of list other than item, in their order
Without(list, item) == SelectSeq(list, LAMBDA x : x # item)

-----------------------------------------------------------------------------
(* C14 *)

\* C14: no step (template import, create_hierarchy_structure,
\* import_payload, hide_all_scopes_except) removes a prim or changes the
\* type of a prim that exists.
C14_KindNeverChanges ==
    [][\A p \in DOMAIN stage.typeName :
          /\ p \in DOMAIN stage'.typeName
          /\ stage'.typeName[p] = stage.typeName[p]]_vars

\* a create_hierarchy_structure whose get_or_create_scope addressed the SKU
\* prim an earlier _get_or_create_prim had made as an Xform
C14_Witness ==
    /\ last.op = "create_hierarchy_structure"
    /\ last.created = 0
    /\ LET p == sku_scope_path(last.model_name, last.sku_name, last.release)
       IN IsValid(stage, p) /\ stage.typeName[p] = "Xform"

-----------------------------------------------------------------------------
(* C15 *)

\* C15: no exception leaves import_payload.  With an asset that exists, an
\* import with no stage ends as NoActiveDocument and an import whose
\* AddPayload command raises ends as AttachError, each with one warning
\* whose text ends with str(e) of the exception.
C15_ImportNeverRaises ==
    [][\A a \in AttachAssets, t \in AttachTargets, x \in BOOLEAN :
          ImportPayload(a, t, x) =>
              /\ last'.escaped = ""
              /\ (check_usd_file_exists(a) /\ ~stage.open) =>
                    /\ last'.outcome = "NoActiveDocument"
                    /\ last'.warnings = 1
                    /\ last'.notification =
                          "ERROR during import: " \o "No active stage found"
              /\ (check_usd_file_exists(a) /\ stage.open /\ x) =>
                    /\ last'.outcome = "AttachError"
                    /\ last'.warnings = 1
                    /\ last'.notification =
                          "ERROR during import: " \o AddPayloadError]_vars

\* an import_payload of an asset that exists, with no stage: it returned
\* after one warning
C15_Witness ==
    /\ last.op = "import_payload"
    /\ ~stage.open
    /\ check_usd_file_exists(last.asset)
    /\ last.outcome = "NoActiveDocument"
    /\ last.escaped = ""
    /\ last.warnings = 1

-----------------------------------------------------------------------------
(* C16 *)

\* C16: every import_payload and every hide_all_scopes_except that does not
\* end as Success (NotFound, AttachError, NoActiveDocument, TargetNotFound)
\* has posted at least one notification.
C16_EveryFailureNotifies ==
    (/\ last.op \in {"import_payload", "hide_all_scopes_except"}
     /\ last.outcome # "Success") =>
        last.warnings >= 1

-----------------------------------------------------------------------------
(* C17 *)

Range(seq) == {seq[i] : i \in 1..Len(seq)}

\* C17: after a _create_hierarchy_and_import_payload whose selected pairs
\* all have their asset file, and in which no AddPayload command raised,
\* the SKU prim of every selected pair exists and carries the payload of
\* the pair's asset.
C17_EverySelectedLeafCarriesItsPayload ==
    (/\ last.op = "_create_hierarchy_and_import_payload"
     /\ last.raises = {}
     /\ \A i \in 1..Len(last.get_selected) :
           check_usd_file_exists(
               PayloadFilePath(last.model_value, last.get_selected[i][1]))) =>
        \A i \in 1..Len(last.get_selected) :
            LET sku == last.get_selected[i][1]
                release == last.get_selected[i][2]
                leaf == "/World/Models/glass_Xform/" \o last.model_value
                            \o "_Xform/Release_" \o release \o "/"
                            \o last.model_value \o "_" \o sku
            IN /\ IsValid(stage, leaf)
               /\ PayloadFilePath(last.model_value, sku)
                      \in Range(stage.payloads[leaf])

-----------------------------------------------------------------------------
(* C18 *)

\* C18: after a successful import_payload the load rules are LoadAll and
\* the prim carries the payload; after an import_payload that ended as
\* NotFound, AttachError or NoActiveDocument the load rules are those the
\* stage had before the call.
C18_LoadAllOnlyAfterAppend ==
    last.op = "import_payload" =>
        /\ last.outcome = "Success" =>
              /\ stage.loadRules = "LoadAll"
              /\ last.asset \in Range(stage.payloads[last.prim])
        /\ last.outcome # "Success" => stage.loadRules = last.loadRules

\* an import_payload whose AddPayload command raised after the target path
\* had been created, on a stage whose load rules were and are LoadNone
C18_Witness ==
    /\ last.op = "import_payload"
    /\ last.outcome = "AttachError"
    /\ last.created > 0
    /\ last.loadRules = "LoadNone"
    /\ stage.loadRules = "LoadNone"

-----------------------------------------------------------------------------
(* C19 *)

\* C19: after a successful hide_all_scopes_except the target prim and every
\* found keep prim is visible, and so is every prim above one of them, of
\* any type.
C19_TargetAndKeepEffectivelyVisible ==
    Isolated =>
        \A k \in Roots :
            /\ Visible(k)
            /\ \A a \in Prims : Below(k, a) => Visible(a)

\* a successful isolation of a SKU scope that keeps Lights: the loop hid
\* Setup, which is above Lights and not above the target, and Setup is
\* visible in the end
C19_Witness ==
    /\ Isolated
    /\ "/World/Setup/Lights" \in KeepFound
    /\ ~Below(last.target, "/World/Setup")
    /\ "Setup" \in Range(last.hidden_scopes)
    /\ Visible("/World/Setup")
    /\ \E n \in ScopePrims : Hidden(n)

-----------------------------------------------------------------------------
(* C20 *)

\* C20: after a successful hide_all_scopes_except every prim below the
\* target prim is visible, whatever its type, its name and its visibility
\* before the call.
C20_TargetSubtreeVisible ==
    Isolated => \A p \in Prims : Below(p, last.target) => Visible(p)

\* a successful isolation with SCOPES_TO_KEEP that made visible a Scope
\* below the target which was invisible before the call and is itself a
\* found keep prim, next to an Xform below the target
C20_Witness ==
    /\ Isolated
    /\ last.keep_scopes = SCOPES_TO_KEEP
    /\ \E p \in last.shown \cap KeepFound :
          Below(p, last.target) /\ stage.typeName[p] = "Scope"
    /\ \E p \in Prims : Below(p, last.target) /\ stage.typeName[p] = "Xform"

-----------------------------------------------------------------------------
(* C21 *)

\* the names, in traversal order, of the Scope prims whose visibility is vis
ScopeNamesWith(vis) ==
    LET sel == SelectSeq(stage.prims,
                         LAMBDA p : /\ stage.typeName[p] = "Scope"
                                    /\ stage.visibility[p] = vis)
    IN [i \in 1..Len(sel) |-> stage.name[sel[i]]]

\* C21: after a successful hide_all_scopes_except the hidden_scopes list
\* names exactly the Scope prims that are invisible when the call ends and
\* the visible_scopes list exactly the Scope prims that are visible, each
\* Scope prim once, in traversal order.
C21_ReportListsMatchFinalVisibility ==
    Isolated =>
        /\ last.hidden_scopes = ScopeNamesWith("invisible")
        /\ last.visible_scopes = ScopeNamesWith("inherited")

-----------------------------------------------------------------------------
(* C22 *)

\* keep lists with names that name no Scope of the stages of SpecScene:
\* "Nope" names no prim, "Cameras" names an Xform
UnmatchedKeepLists ==
    SceneKeepLists \cup {<<"Cameras", "Lights">>, <<"Nope", "Models", "Setup">>}

\* the keep list without the names that name no Scope of the stage
Matched(st, keep_scopes) ==
    SelectSeq(keep_scopes, LAMBDA n : find_scope_by_name(st, n) # "")

\* C22: in every stage and for every target name and keep list,
\* hide_all_scopes_except ends as it ends, and leaves every visibility
\* attribute as it leaves it, with the keep list from which the names that
\* name no Scope are removed.
C22_UnmatchedKeepNamesAreSkipped ==
    \A t \in SceneTargetNames, k \in UnmatchedKeepLists :
        LET Same(r1, r2) ==
                /\ r1.outcome = r2.outcome
                /\ r1.stage.visibility = r2.stage.visibility
        IN Same(hide_all_scopes_except(stage, t, k),
                hide_all_scopes_except(stage, t, Matched(stage, k)))

\* a stage reached by a successful isolation of a SKU scope whose keep list
\* held a name that names no Scope (Cameras is an Xform) next to names that
\* were found (Lights), and that hid some Scope; the call with the matched
\* names alone leads to the same stage
C22_Witness ==
    /\ Isolated
    /\ last.name = "M_A"
    /\ last.keep_scopes = SCOPES_TO_KEEP
    /\ "Cameras" \notin DOMAIN last.keep
    /\ "/World/Setup/Cameras" \in Prims
    /\ "Lights" \in DOMAIN last.keep
    /\ \E n \in ScopePrims : Hidden(n)
    /\ Matched(stage, last.keep_scopes) # last.keep_scopes
    /\ hide_all_scopes_except(stage, last.name,
                              Matched(stage, last.keep_scopes)).stage = stage

-----------------------------------------------------------------------------
(* C23 *)

\* the Scope prims named n, and the one of them the traversal meets first
ScopesNamed(n) == {p \in ScopePrims : stage.name[p] = n}
IndexOf(p) == CHOOSE i \in 1..Len(stage.prims) : stage.prims[i] = p
FirstOf(ps) == CHOOSE p \in ps : \A q \in ps : IndexOf(p) <= IndexOf(q)

\* C23: after a successful hide_all_scopes_except the target is the first
\* Scope prim of the traversal that has the target name and each found keep
\* prim is the first Scope prim that has its keep name; every other Scope
\* prim of such a name is hidden unless it is below the target, a found keep
\* prim, or above the target or a found keep prim.
C23_DuplicateNamesResolveToFirst ==
    Isolated =>
        /\ last.target = FirstOf(ScopesNamed(last.name))
        /\ \A n \in DOMAIN last.keep : last.keep[n] = FirstOf(ScopesNamed(n))
        /\ \A n \in {last.name} \cup DOMAIN last.keep :
             \A p \in ScopesNamed(n) \ {FirstOf(ScopesNamed(n))} :
                \/ Hidden(p)
                \/ Below(p, last.target)
                \/ p \in KeepFound
                \/ \E k \in Roots : Below(k, p)

\* a successful isolation of M_B that keeps M_A while two Scope prims are
\* named M_A: the one the traversal meets first is the keep prim and is
\* visible, the other one is hidden
C23_Witness ==
    /\ Isolated
    /\ last.name = "M_B"
    /\ "M_A" \in DOMAIN last.keep
    /\ Cardinality(ScopesNamed("M_A")) = 2
    /\ Visible(last.keep["M_A"])
    /\ \E p \in ScopesNamed("M_A") :
          /\ IndexOf(last.keep["M_A"]) < IndexOf(p)
          /\ Hidden(p)

-----------------------------------------------------------------------------
(* C24 *)

\* C24: an import_payload whose AddPayload command raises leaves in the stage
\* the prims _get_or_create_prim made for the target path, appends no
\* payload to any prim, and a second import_payload with the same arguments,
\* raising or not, makes no further prim.
C24_FailedAttachKeepsPrimsRetryAddsNone ==
    [][\A a \in AttachAssets, t \in AttachTargets :
          (ImportPayload(a, t, TRUE) /\ last'.outcome = "AttachError") =>
              /\ stage'.prims = get_or_create_prim(stage, t).stage.prims
              /\ \A p \in DOMAIN stage'.payloads :
                    stage'.payloads[p] =
                        IF p \in DOMAIN stage.payloads THEN stage.payloads[p]
                        ELSE <<>>
              /\ \A x \in BOOLEAN :
                    import_payload(stage', a, t, x).stage.prims = stage'.prims
      ]_vars

\* an import_payload that made the six prims of the target path and then
\* ended with AttachError: the prims are in the stage, the target carries
\* no payload, and the same import_payload again makes no prim
C24_Witness ==
    /\ last.op = "import_payload"
    /\ last.outcome = "AttachError"
    /\ last.created = 6
    /\ IsValid(stage, last.path)
    /\ stage.payloads[last.path] = <<>>
    /\ import_payload(stage, last.asset, last.path, FALSE).stage.prims = stage.prims
    /\ import_payload(stage, last.asset, last.path, FALSE).outcome = "Success"

-----------------------------------------------------------------------------
(* C25 *)

\* the queue q waits in wait_for_render_completion
Waiting(q) ==
    (IF q \in 1..Len(queues) THEN queues[q].pc ELSE "none") \in {"poll", "sleep"}

\* the waits that have returned in queue q
Waited(q) ==
    IF q \in 1..Len(queues)
    THEN SelectSeq(queues[q].trace, LAMBDA e : e.ev = "waited")
    ELSE <<>>

\* the folder the queue q polls can be listed and holds every expected file
AllFramesPresent(q) ==
    /\ queues[q].output_path \in dirs
    /\ \A f \in queues[q].start_frame..queues[q].end_frame :
          <<queues[q].output_path,
            queues[q].selected_skus[queues[q].i] \o ".0" \o Str(f) \o "." \o EXT>>
                \in files

\* the step ends the wait of queue q with the result res
Returns(q, res) ==
    /\ Len(queues'[q].trace) = Len(queues[q].trace) + 1
    /\ queues'[q].trace[Len(queues'[q].trace)].ev = "waited"
    /\ queues'[q].trace[Len(queues'[q].trace)].result = res

\* C25: every wait_for_render_completion ends.  A pass of its loop returns
\* True exactly when the folder can be listed and holds every expected file
\* before the timeout, so at the first such pass; it returns False at once
\* when the folder cannot be listed; a wait lists the folder at most
\* WaitTimeout / poll_interval times; and no step of the wait adds or
\* removes a folder or a file.
C25_WaitAlwaysTerminates ==
    /\ \A q \in 1..MaxQueues, n \in 0..MaxRenders :
          (Waiting(q) /\ Len(Waited(q)) = n) ~> (Len(Waited(q)) > n)
    /\ [](\A q \in 1..Len(queues) :
             queues[q].polls <= WaitTimeout \div poll_interval)
    /\ [][\A q \in 1..MaxQueues :
            /\ RenderQueuePoll(q) =>
                  /\ dirs' = dirs /\ files' = files
                  /\ Returns(q, "True") <=>
                        (queues[q].elapsed < WaitTimeout /\ AllFramesPresent(q))
                  /\ (queues[q].elapsed < WaitTimeout
                        /\ queues[q].output_path \notin dirs) => Returns(q, "False")
                  /\ Returns(q, "False") <=>
                        \/ ~(queues[q].elapsed < WaitTimeout)
                        \/ queues[q].output_path \notin dirs
            /\ RenderQueueWake(q) => (dirs' = dirs /\ files' = files)
       ]_vars

\* a queue whose first wait returned True and whose second wait listed
\* the folder WaitTimeout / poll_interval times, slept after each listing
\* and returned False on the timeout
C25_Witness ==
    \E q \in 1..Len(queues) :
        /\ Len(Waited(q)) = 2
        /\ Waited(q)[1].result = "True"
        /\ Waited(q)[2].result = "False"
        /\ queues[q].polls = WaitTimeout \div poll_interval
        /\ queues[q].elapsed = WaitTimeout

-----------------------------------------------------------------------------
(* C26 *)

\* the events of one model of a render queue, in the order of the code
QueueEvents == <<"isolate", "capture", "waited">>

\* C26: the events of every render queue are, for the selected names in
\* their order, the isolation of the name, then the start of its capture,
\* then the return of its wait, so that no capture starts before the wait
\* of the name before it has returned; and the capture extension holds the
\* name of the capture that was started last when one queue only runs.
C26_QueueRunsSkusInOrderOneAtATime ==
    \A q \in 1..Len(queues) :
        /\ Len(queues[q].trace) <= 3 * Len(queues[q].selected_skus)
        /\ \A k \in 1..Len(queues[q].trace) :
              /\ queues[q].trace[k].ev = QueueEvents[((k - 1) % 3) + 1]
              /\ queues[q].trace[k].sku =
                    queues[q].selected_skus[((k - 1) \div 3) + 1]
        /\ queues[q].pc = "done" /\ queues[q].i > 0 =>
              Len(queues[q].trace) = 3 * Len(queues[q].selected_skus)
        /\ queues[q].pc \in {"poll", "sleep"} =>
              /\ Len(queues[q].trace) = 3 * queues[q].i - 1
              /\ Len(queues) = 1 =>
                    capture.file_name = queues[q].selected_skus[queues[q].i]

\* a queue of two names that has ended: the wait of the first name
\* returned False, and the second name was isolated and captured after that
C26_Witness ==
    \E q \in 1..Len(queues) :
        /\ queues[q].pc = "done"
        /\ queues[q].selected_skus = <<"M_A", "M_B">>
        /\ Len(queues[q].trace) = 6
        /\ queues[q].trace[3].result = "False"
        /\ queues[q].output_path \in dirs
        /\ queues[q].trace[5].ev = "capture"
        /\ capture.file_name = "M_B"

-----------------------------------------------------------------------------
(* C27 *)

\* a render queue is between the isolation of a name and the return of the
\* wait for that name
Capturing(q) == queues[q].pc \in {"capture", "poll", "sleep"}

\* C27: from the isolation of a name by a render queue until the wait for
\* that name returns, the visibility of the document is the one the
\* isolation left: no other callback has changed it.
C27_NoOtherWriterWhileCapturing ==
    \A q \in 1..Len(queues) :
        Capturing(q) => stage.visibility = queues[q].isolated

-----------------------------------------------------------------------------
(* C28 *)

\* p is neither below nor above r in the namespace
Apart(p, r) == ~Below(p, r) /\ ~Below(r, p)

\* the prims that are not Scopes and lie apart from the target and from
\* every found keep prim of the last hide_all_scopes_except
Bystanders ==
    {p \in Prims : /\ stage.typeName[p] # "Scope"
                   /\ \A r \in Roots : Apart(p, r)}

\* C28: a call of hide_all_scopes_except changes nothing of the stage but
\* visibility attributes (no prim is created or removed, no type, payload
\* list or load rule changes), and it leaves the visibility of every prim
\* that is not a Scope and is neither below nor above the target or a found
\* keep prim as it was; a call that finds no target changes nothing at all.
C28_IsolateChangesOnlyVisibility ==
    [][last'.op = "hide_all_scopes_except" =>
          /\ [stage' EXCEPT !.visibility = stage.visibility] = stage
          /\ DOMAIN stage'.visibility = DOMAIN stage.visibility
          /\ last'.outcome # "Success" => stage' = stage
          /\ last'.outcome = "Success" =>
                \A p \in Bystanders' :
                    stage'.visibility[p] = stage.visibility[p]]_vars

\* a successful call on a stage with a prim that is not a Scope and lies
\* apart from the target and the keep prims, in which the loop has hidden
\* Scopes and shown others
C28_Witness ==
    /\ Isolated
    /\ Bystanders # {}
    /\ last.hidden_scopes # <<>>
    /\ last.visible_scopes # <<>>

-----------------------------------------------------------------------------
(* C29 *)

\* C29: every name that get_filtered_scopes lists is the name the render
\* panel rebuilds from it (the first two parts of the name split at "_",
\* joined as <model>_<sku>).
C29_RenderNameIsScopeName ==
    LET Same(payload_list) ==
            \A i \in 1..Len(payload_list) :
                RenderName(RenderItem(payload_list[i])) = payload_list[i]
    IN stage.open => Same(get_filtered_scopes(stage))

-----------------------------------------------------------------------------
(* C30 *)

Batched == last.op = "_create_hierarchy_and_import_payload"

\* the outcome the import of the pair at position i of the last batch must
\* have by the pair alone
OwnOutcome(i) ==
    IF ~check_usd_file_exists(
            PayloadFilePath(last.model_value, last.get_selected[i][1]))
    THEN "NotFound"
    ELSE IF i \in last.raises THEN "AttachError"
    ELSE "Success"

\* C30: after a _create_hierarchy_and_import_payload every selected pair
\* has been processed, in the order of the selection and whatever the
\* outcome of the pairs before it: the SKU prim of every pair exists, the
\* import of every pair has the outcome of that pair alone (NotFound for a
\* missing asset file, AttachError for a raising AddPayload command,
\* Success otherwise), and the payload of every pair that succeeded is on
\* the prim, named <model>_<sku>, that its import resolved.
C30_BatchGoesOnAfterFailures ==
    Batched =>
        /\ Len(last.outcomes) = Len(last.get_selected)
        /\ last.infos = 1
        /\ \A i \in 1..Len(last.get_selected) :
              /\ IsValid(stage, SkuPrimPath(last.model_value, last.get_selected[i][1],
                                            last.get_selected[i][2]))
              /\ last.outcomes[i] = OwnOutcome(i)
              /\ last.outcomes[i] = "Success" =>
                    /\ IsValid(stage, last.prims[i])
                    /\ stage.name[last.prims[i]] =
                          last.model_value \o "_" \o last.get_selected[i][1]
                    /\ PayloadFilePath(last.model_value, last.get_selected[i][1])
                          \in Range(stage.payloads[last.prims[i]])

\* a batch of two pairs whose first pair failed, for a missing asset file
\* or a raising AddPayload command, and whose second pair was imported
C30_Witness ==
    /\ Batched
    /\ Len(last.get_selected) = 2
    /\ last.outcomes \in {<<"NotFound", "Success">>, <<"AttachError", "Success">>}
    /\ PayloadFilePath(last.model_value, last.get_selected[2][1])
          \in Range(stage.payloads[last.prims[2]])

=============================================================================
